---- MODULE Spec2Model ----
(***************************************************************************)
(* PURE Chart Service: the POST /api/chart/western handlers of             *)
(*   src/server.js                      (axios, app "server"),             *)
(*   src/unnamed/part_001, lines 14-237 (fetch + callAstrologyApi,         *)
(*                                       app "fetch"),                     *)
(*   src/unnamed/part_000, lines 101-267 (in-memory cache + normalizers,   *)
(*                                       app "cached"),                    *)
(* with the helpers they call: isValidDateISO, isValidTimeHHMM,            *)
(* getTzOffsetHours, makeCacheKey, normalizeBodies, normalizeHouses.       *)
(*                                                                         *)
(* Conventions.                                                            *)
(*  - A JavaScript value is a tagged record: [t |-> "undefined"],          *)
(*    [t |-> "null"], [t |-> "number", v |-> n], [t |-> "string", v |-> s],*)
(*    [t |-> "boolean", v |-> b].                                          *)
(*  - A string the code takes apart character by character (date, time,   *)
(*    body name) is a sequence of one-character strings; a string the code *)
(*    uses whole (zone identifier, house system, cache key) is a string.   *)
(*  - Instants are seconds since 1970-01-01T00:00:00Z (the code's          *)
(*    milliseconds divided by 1000: every instant it handles is a whole    *)
(*    second).  Offsets in hours are kept in hundredths of an hour, the    *)
(*    precision the code rounds to.                                        *)
(*  - The wall clock of the cache (Date.now()) is counted in whole days.   *)
(***************************************************************************)
EXTENDS Integers, Sequences, FiniteSets, TLC

VARIABLES
  app,          \* which server file is running
  credentials,  \* ASTROLOGY_API_USER_ID and ASTROLOGY_API_KEY are both set
  now,          \* Date.now(), in days
  cache,        \* the Map of part_000: cache key -> entry
  pc,           \* per request slot: "idle", "awaiting" (suspended at the upstream call), "done"
  req,          \* per slot: the request body
  calls,        \* per slot: upstream calls made for the current request
  sent,         \* per slot: the payload handed to the upstream call
  answer,       \* per slot: what the upstream answered
  resp,         \* per slot: the HTTP response written
  resolved,     \* per slot: invocations of getTzOffsetHours for the current request
  probe         \* a direct call of one of the pure helpers: its argument and result

vars == <<app, credentials, now, cache, pc, req, calls, sent, answer, resp, resolved, probe>>

handlerVars == <<app, credentials, now, cache, pc, req, calls, sent, answer, resp, resolved>>

(***************************************************************************)
(* JavaScript values                                                       *)
(***************************************************************************)
Undefined == [t |-> "undefined"]

Null == [t |-> "null"]

Num(n) == [t |-> "number", v |-> n]

Str(s) == [t |-> "string", v |-> s]

Bool(b) == [t |-> "boolean", v |-> b]

\* typeof x === "number" / "string"
IsNumber(x) == x.t = "number"

IsString(x) == x.t = "string"

\* ToBoolean: undefined, null, 0, the empty string and false are falsy.
Truthy(x) ==
  CASE x.t = "undefined" -> FALSE
    [] x.t = "null" -> FALSE
    [] x.t = "number" -> x.v # 0
    [] x.t = "string" -> Len(x.v) > 0
    [] x.t = "boolean" -> x.v
    [] OTHER -> TRUE

\* a || b
Or(a, b) == IF Truthy(a) THEN a ELSE b

\* a ?? b
Nullish(a, b) == IF a.t \in {"undefined", "null"} THEN b ELSE a

\* x === false and x === "text"
IsFalse(x) == x.t = "boolean" /\ x.v = FALSE

IsText(x, text) == x.t = "string" /\ x.v = text

\* obj.f of an object modelled as a record: undefined when the field is absent.
Get(obj, f) == IF f \in DOMAIN obj THEN obj[f] ELSE Undefined

(***************************************************************************)
(* Strings taken apart by the code                                         *)
(***************************************************************************)
Digits == <<"0", "1", "2", "3", "4", "5", "6", "7", "8", "9">>

IsDigit(c) == \E i \in 1..Len(Digits) : Digits[i] = c

DigitVal(c) == (CHOOSE i \in 1..Len(Digits) : Digits[i] = c) - 1

\* parseInt(s, 10) of a run of digits.
RECURSIVE ParseInt(_)
ParseInt(s) ==
  IF s = <<>> THEN 0
  ELSE 10 * ParseInt(SubSeq(s, 1, Len(s) - 1)) + DigitVal(s[Len(s)])

\* s.split(sep) for a one-character separator.
RECURSIVE Split(_, _)
Split(s, sep) ==
  IF \A i \in 1..Len(s) : s[i] # sep THEN <<s>>
  ELSE LET k == CHOOSE i \in 1..Len(s) : s[i] = sep /\ \A j \in 1..(i - 1) : s[j] # sep
       IN <<SubSeq(s, 1, k - 1)>> \o Split(SubSeq(s, k + 1, Len(s)), sep)

\* String(n).padStart(2, "0") and (4, "0"), the "2-digit" and "numeric" renderings.
Pad2(n) == <<Digits[((n \div 10) % 10) + 1], Digits[(n % 10) + 1]>>

Pad4(n) == <<Digits[((n \div 1000) % 10) + 1], Digits[((n \div 100) % 10) + 1]>> \o Pad2(n % 100)

\* The text "YYYY-MM-DD" and "HH:MM" of given numbers.
DateText(y, m, d) == Pad4(y) \o <<"-">> \o Pad2(m) \o <<"-">> \o Pad2(d)

TimeText(h, mi) == Pad2(h) \o <<":">> \o Pad2(mi)

\* typeof s === "string" && /^\d{4}-\d{2}-\d{2}$/.test(s)
isValidDateISO(s) ==
  /\ IsString(s)
  /\ Len(s.v) = 10
  /\ \A i \in {1, 2, 3, 4, 6, 7, 9, 10} : IsDigit(s.v[i])
  /\ s.v[5] = "-"
  /\ s.v[8] = "-"

\* typeof s === "string" && /^\d{2}:\d{2}$/.test(s)
isValidTimeHHMM(s) ==
  /\ IsString(s)
  /\ Len(s.v) = 5
  /\ \A i \in {1, 2, 4, 5} : IsDigit(s.v[i])
  /\ s.v[3] = ":"

\* date.split("-").map(n => parseInt(n, 10)) and time.split(":").map(...)
ParsedParts(parts) == [i \in 1..Len(parts) |-> ParseInt(parts[i])]

DateFields(text) == ParsedParts(Split(text, "-"))

TimeFields(text) == ParsedParts(Split(text, ":"))

(***************************************************************************)
(* Date.UTC and the calendar                                               *)
(***************************************************************************)
\* Days from 1970-01-01 to the proleptic Gregorian date y-m-d (m in 1..12, any d).
DaysFromCivil(y, m, d) ==
  LET yy == IF m <= 2 THEN y - 1 ELSE y
      era == yy \div 400
      yoe == yy - era * 400
      mp == IF m > 2 THEN m - 3 ELSE m + 9
      doy == (153 * mp + 2) \div 5 + d - 1
      doe == yoe * 365 + yoe \div 4 - yoe \div 100 + doy
  IN era * 146097 + doe - 719468

\* The date [y, m, d] of a day count.
CivilFromDays(z) ==
  LET zz == z + 719468
      era == zz \div 146097
      doe == zz - era * 146097
      yoe == (doe - doe \div 1460 + doe \div 36524 - doe \div 146096) \div 365
      doy == doe - (365 * yoe + yoe \div 4 - yoe \div 100)
      mp == (5 * doy + 2) \div 153
      d == doy - (153 * mp + 2) \div 5 + 1
      m == IF mp < 10 THEN mp + 3 ELSE mp - 9
  IN [y |-> yoe + era * 400 + (IF m <= 2 THEN 1 ELSE 0), m |-> m, d |-> d]

\* Date.UTC(y, monthIndex, d, hh, mm, ss) / 1000.  Out-of-range fields carry
\* over (month index 12 is January of the next year, day 45 runs into the
\* next month); a year 0..99 means 1900 + year.
DateUTC(y, monthIndex, d, hh, mm, ss) ==
  LET y0 == IF y >= 0 /\ y <= 99 THEN 1900 + y ELSE y
      y1 == y0 + monthIndex \div 12
      m1 == (monthIndex % 12) + 1
  IN (DaysFromCivil(y1, m1, 1) + d - 1) * 86400 + hh * 3600 + mm * 60 + ss

(***************************************************************************)
(* The platform's zone database, as Intl.DateTimeFormat reads it           *)
(***************************************************************************)
\* Rules of a zone: offsets in seconds, each in force from an instant on.
\* The table covers 2021 for the zones with daylight saving.
ZoneRules(zone) ==
  CASE zone = "UTC" -> <<[off |-> 0]>>
    [] zone = "Europe/Amsterdam" ->
         <<[off |-> 3600],
           [from |-> DateUTC(2021, 2, 28, 1, 0, 0), off |-> 7200],
           [from |-> DateUTC(2021, 9, 31, 1, 0, 0), off |-> 3600]>>
    [] zone = "America/New_York" ->
         <<[off |-> -18000],
           [from |-> DateUTC(2021, 2, 14, 7, 0, 0), off |-> -14400],
           [from |-> DateUTC(2021, 10, 7, 6, 0, 0), off |-> -18000]>>
    [] zone = "Asia/Kathmandu" -> <<[off |-> 20700]>>
    [] zone = "Africa/Monrovia" ->
         <<[off |-> -2670],
           [from |-> DateUTC(1972, 0, 7, 0, 44, 30), off |-> 0]>>

KnownZones == {"UTC", "Europe/Amsterdam", "America/New_York", "Asia/Kathmandu", "Africa/Monrovia"}

\* new Intl.DateTimeFormat(..., { timeZone }) throws a RangeError for anything
\* that is not a zone identifier of the database.
IsKnownZone(tz) == IsString(tz) /\ tz.v \in KnownZones

\* The zone's offset from UTC, in seconds, at instant t.
RuleInForce(rules, t) ==
  rules[CHOOSE i \in 1..Len(rules) :
          /\ (i = 1 \/ rules[i].from <= t)
          /\ \A j \in (i + 1)..Len(rules) : rules[j].from > t]

ZoneOffsetAt(zone, t) == RuleInForce(ZoneRules(zone), t).off

\* dtf.formatToParts(instant): the wall-clock fields of the instant in the
\* zone, each rendered as text (hours 00..23).
PartsOf(date, secs) ==
  [year |-> Pad4(date.y), month |-> Pad2(date.m), day |-> Pad2(date.d),
   hour |-> Pad2(secs \div 3600), minute |-> Pad2((secs % 3600) \div 60),
   second |-> Pad2(secs % 60)]

PartsOfLocal(local) == PartsOf(CivilFromDays(local \div 86400), local % 86400)

FormatToParts(zone, t) == PartsOfLocal(t + ZoneOffsetAt(zone, t))

\* Math.round(x * 100) / 100 of x = secs / 3600, in hundredths: Math.round
\* rounds to the nearest integer, a half towards +infinity.
RoundHundredths(secs) == (2 * secs + 36) \div 72

\* getTzOffsetHours(dateISO, timeHHMM, timeZone), in hundredths of an hour.
\* The caller has checked the formats; the zone is one the database knows.
\* utcGuess = new Date(Date.UTC(y, m - 1, d, hh, mm, 0))
UtcGuess(ymd, hm) == DateUTC(ymd[1], ymd[2] - 1, ymd[3], hm[1], hm[2], 0)

\* localAsUTC = Date.UTC(parseInt(map.year, 10), parseInt(map.month, 10) - 1, ...)
LocalAsUTC(map) ==
  DateUTC(ParseInt(map.year), ParseInt(map.month) - 1, ParseInt(map.day),
          ParseInt(map.hour), ParseInt(map.minute), ParseInt(map.second))

\* offsetMinutes = (localAsUTC - utcGuess.getTime()) / 60000, then the rounding.
OffsetOfGuess(zone, utcGuess) ==
  RoundHundredths(LocalAsUTC(FormatToParts(zone, utcGuess)) - utcGuess)

getTzOffsetHours(dateText, timeText, zone) ==
  OffsetOfGuess(zone, UtcGuess(DateFields(dateText), TimeFields(timeText)))

(***************************************************************************)
(* Objects, arrays and exceptions                                          *)
(***************************************************************************)
\* An array value; an object is a record with t = "object" and its fields.
Arr(seq) == [t |-> "array", v |-> seq]

\* Array.isArray(x)
IsArray(x) == x.t = "array"

\* raw?.f : undefined when raw is null or undefined.
OptGet(obj, f) == IF obj.t \in {"undefined", "null"} THEN Undefined ELSE Get(obj, f)

\* The outcome of a call that can throw.
Ok(v) == [ok |-> TRUE, v |-> v]

Thrown(e) == [ok |-> FALSE, error |-> e]

(***************************************************************************)
(* normalizeBodies (part_000)                                              *)
(***************************************************************************)
UpperCase == <<"A", "B", "C", "D", "E", "F", "G", "H", "I", "J", "K", "L", "M",
               "N", "O", "P", "Q", "R", "S", "T", "U", "V", "W", "X", "Y", "Z">>

LowerCase == <<"a", "b", "c", "d", "e", "f", "g", "h", "i", "j", "k", "l", "m",
               "n", "o", "p", "q", "r", "s", "t", "u", "v", "w", "x", "y", "z">>

\* name.toLowerCase()
ToLowerCase(s) ==
  [i \in 1..Len(s) |->
     IF \E k \in 1..Len(UpperCase) : UpperCase[k] = s[i]
     THEN LowerCase[CHOOSE k \in 1..Len(UpperCase) : UpperCase[k] = s[i]]
     ELSE s[i]]

\* s.includes(sub)
Includes(s, sub) ==
  \E i \in 1..(Len(s) - Len(sub) + 1) : SubSeq(s, i, i + Len(sub) - 1) = sub

NorthNode == <<"N", "o", "r", "t", "h", "N", "o", "d", "e">>

SouthNode == <<"S", "o", "u", "t", "h", "N", "o", "d", "e">>

Chiron == <<"C", "h", "i", "r", "o", "n">>

Lilith == <<"L", "i", "l", "i", "t", "h">>

\* The four alias rules, applied in order to the lower-cased original name:
\* a later rule that matches overwrites an earlier one.
CanonicalName(name) ==
  LET lower == ToLowerCase(name)
      n1 == IF Includes(lower, <<"r", "a", "h", "u">>) \/ Includes(lower, <<"n", "o", "r", "t", "h">>)
            THEN NorthNode ELSE name
      n2 == IF Includes(lower, <<"k", "e", "t", "u">>) \/ Includes(lower, <<"s", "o", "u", "t", "h">>)
            THEN SouthNode ELSE n1
      n3 == IF Includes(lower, <<"c", "h", "i", "r", "o", "n">>) THEN Chiron ELSE n2
      n4 == IF Includes(lower, <<"l", "i", "l", "i", "t", "h">>) \/ Includes(lower, <<"b", "l", "a", "c", "k">>)
            THEN Lilith ELSE n3
  IN n4

\* let name = p.name || p.planet || p.object
BodyName(p) == Or(Or(Get(p, "name"), Get(p, "planet")), Get(p, "object"))

\* The entry push(name, obj) appends.
PushedBody(name, obj) ==
  [name |-> name,
   sign |-> Or(Or(Or(Get(obj, "sign"), Get(obj, "zodiac_sign")), Get(obj, "sign_name")), Null),
   house |-> Or(Or(Get(obj, "house"), Get(obj, "house_number")), Null),
   degree |-> Nullish(Nullish(Nullish(Get(obj, "degree"), Get(obj, "full_degree")), Get(obj, "longitude")), Null),
   retro |-> Truthy(Or(Or(Get(obj, "is_retro"), Get(obj, "retrograde")), Bool(FALSE)))]

\* The planet list the loop runs over.
PlanetList(raw) ==
  Or(Or(Or(OptGet(raw, "planets"), OptGet(raw, "planet_positions")), OptGet(raw, "objects")), Arr(<<>>))

\* The loop body skips p when it is falsy or has no name.
IsSkippedBody(p) == ~Truthy(p) \/ ~Truthy(BodyName(p))

\* name.toLowerCase() throws a TypeError when the name is not a string.
BodyThrows(p) == ~IsSkippedBody(p) /\ ~IsString(BodyName(p))

\* bodies after the for loop over a list none of whose entries throws.
RECURSIVE PushedBodies(_)
PushedBodies(list) ==
  IF list = <<>> THEN <<>>
  ELSE (IF IsSkippedBody(Head(list)) THEN <<>>
        ELSE <<PushedBody(CanonicalName(BodyName(Head(list)).v), Head(list))>>)
       \o PushedBodies(Tail(list))

\* Mutation: unique.set(b.name, b) without the has() test, so that the last
\* entry of a name replaces the earlier ones (at the first one's position).
RECURSIVE UniqueByNameLast(_)
UniqueByNameLast(bodies) ==
  IF bodies = <<>> THEN <<>>
  ELSE LET rest == Tail(bodies)
           same == {i \in 1..Len(rest) : rest[i].name = Head(bodies).name}
           kept == IF same = {} THEN Head(bodies)
                   ELSE rest[CHOOSE i \in same : \A j \in same : j <= i]
       IN <<kept>> \o UniqueByNameLast(SelectSeq(rest, LAMBDA b : b.name # Head(bodies).name))

\* const unique = new Map(); for (b of bodies) if (!unique.has(b.name)) unique.set(b.name, b);
\* Array.from(unique.values()): a Map keeps its keys in insertion order.
RECURSIVE UniqueByName(_)
UniqueByName(bodies) ==
  IF bodies = <<>> THEN <<>>
  ELSE <<Head(bodies)>>
       \o UniqueByName(SelectSeq(Tail(bodies), LAMBDA b : b.name # Head(bodies).name))

BodiesOf(planetList) ==
  IF ~IsArray(planetList) THEN Ok(<<>>)
  ELSE IF \E i \in 1..Len(planetList.v) : BodyThrows(planetList.v[i])
       THEN Thrown("TypeError")
       ELSE Ok(UniqueByName(PushedBodies(planetList.v)))

normalizeBodies(raw) == BodiesOf(PlanetList(raw))

(***************************************************************************)
(* normalizeHouses (part_000)                                              *)
(***************************************************************************)
\* The object list.map builds from h.
MappedHouse(h) ==
  [house |-> Or(Or(Get(h, "house"), Get(h, "house_number")), Null),
   sign |-> Or(Or(Get(h, "sign"), Get(h, "zodiac_sign")), Null),
   start_degree |-> Nullish(Nullish(Get(h, "start_degree"), Get(h, "start")), Null),
   end_degree |-> Nullish(Nullish(Get(h, "end_degree"), Get(h, "end")), Null)]

\* Mutation: the mapped list returned without the filter.
KeepsEveryHouse(h) == TRUE

\* .filter(h => h.house !== null), on a mapped entry
KeepsHouse(h) == h.house.t # "null"

HousesOf(list) ==
  IF ~IsArray(list) THEN Thrown("TypeError")  \* list.map is not a function
  ELSE IF \E i \in 1..Len(list.v) : list.v[i].t \in {"undefined", "null"}
       THEN Thrown("TypeError")               \* h.house of null
       ELSE Ok(SelectSeq([i \in 1..Len(list.v) |-> MappedHouse(list.v[i])], KeepsHouse))

normalizeHouses(raw) == HousesOf(Or(OptGet(raw, "houses"), Arr(<<>>)))

(***************************************************************************)
(* Bounds of the model                                                     *)
(***************************************************************************)
\* Requests the cached app receives in one run; they may overlap in time.
MaxRequests == 2

\* Days the clock advances in one step, and the day it stops at.
TickDays == 15

MaxNow == 45

\* Longest planet list and longest houses list handed to the normalizers directly.
MaxBodies == 3

MaxHouses == 3

(***************************************************************************)
(* Requests, responses and upstream answers                                *)
(***************************************************************************)
Apps == {"server", "fetch", "cached"}

Slots == 1..MaxRequests

\* The handlers of server.js and part_001 keep nothing between requests and
\* share nothing, so their requests are taken one at a time; the requests of
\* the cached app meet in the cache and may be in flight together.
SlotsOf(a) == IF a = "cached" THEN Slots ELSE {1}

NoReq == [none |-> TRUE]

NoPayload == [none |-> TRUE]

NoAnswer == [kind |-> "none"]

NoResp == [status |-> 0]

\* const { x = dflt } = req.body : the default applies to undefined only.
Default(x, dflt) == IF x.t = "undefined" THEN dflt ELSE x

\* res.status(400).json({ error }) : names holds the request fields the message names.
BadRequest(message, names) == [status |-> 400, error |-> message, names |-> names]

\* res.status(500).json({ error })
ServerError(message) == [status |-> 500, error |-> message]

\* res.status(502).json({ error, details })
BadGateway(message, details) == [status |-> 502, error |-> message, details |-> details]

\* What a handler has done when it returns or suspends at the upstream call.
Finished(response, n) ==
  [pc |-> "done", resp |-> response, sent |-> NoPayload, calls |-> 0, resolved |-> n]

Suspended(payload, n) ==
  [pc |-> "awaiting", resp |-> NoResp, sent |-> payload, calls |-> 1, resolved |-> n]

\* An upstream answer: an HTTP response, a network failure, or no answer
\* within the timeout the call carries.
Http(status, data) == [kind |-> "http", status |-> status, data |-> data]

NetworkError == [kind |-> "error"]

Timeout == [kind |-> "timeout"]

\* response.status >= 200 && response.status < 300; res.ok; axios' default validateStatus
IsSuccessStatus(status) == status >= 200 /\ status < 300

(***************************************************************************)
(* server.js and part_001: validation and the choice of tzone              *)
(***************************************************************************)
\* Mutation: the resolver is always consulted and tz_offset ignored.
SelectTzoneAlwaysResolves(tz_offset, date, time, timezone) ==
  [n |-> 1,
   r |-> IF IsKnownZone(timezone)
         THEN Ok(getTzOffsetHours(date.v, time.v, timezone.v))
         ELSE Thrown("RangeError")]

\* const tzone = typeof tz_offset === "number" ? tz_offset : getTzOffsetHours(date, time, timezone)
\* n counts the calls of getTzOffsetHours; the call throws a RangeError when
\* Intl.DateTimeFormat does not know the zone.
SelectTzone(tz_offset, date, time, timezone) ==
  IF IsNumber(tz_offset) THEN [n |-> 0, r |-> Ok(tz_offset.v)]
  ELSE [n |-> 1,
        r |-> IF IsKnownZone(timezone)
              THEN Ok(getTzOffsetHours(date.v, time.v, timezone.v))
              ELSE Thrown("RangeError")]

\* The timezone the handler works with: "Europe/Amsterdam" when the body has none.
TimezoneOf(body) == Default(Get(body, "timezone"), Str("Europe/Amsterdam"))

\* The payload both handlers build.
PayloadOf(ymd, hm, latitude, longitude, tzone) ==
  [day |-> ymd[3], month |-> ymd[2], year |-> ymd[1], hour |-> hm[1], min |-> hm[2],
   lat |-> latitude, lon |-> longitude, tzone |-> tzone]

ChartPayload(body, tzone) ==
  PayloadOf(DateFields(Get(body, "date").v), TimeFields(Get(body, "time").v),
            Get(body, "latitude").v, Get(body, "longitude").v, tzone)

\* meta of the 200 response
ChartMeta(body, tzone) ==
  [name |-> Default(Get(body, "name"), Str("")), date |-> Get(body, "date"),
   time |-> Get(body, "time"), latitude |-> Get(body, "latitude"),
   longitude |-> Get(body, "longitude"), timezone |-> TimezoneOf(body), tzone |-> tzone]

\* server.js, "Validatie": the 400 response, or NoResp when the body passes.
ServerValidation(body) ==
  IF ~isValidDateISO(Get(body, "date"))
  THEN BadRequest("Ongeldige datum", {"date"})
  ELSE IF ~isValidTimeHHMM(Get(body, "time"))
  THEN BadRequest("Ongeldige tijd", {"time"})
  ELSE IF ~IsNumber(Get(body, "latitude")) \/ ~IsNumber(Get(body, "longitude"))
  THEN BadRequest("Latitude en longitude zijn verplicht (nummer)", {"latitude", "longitude"})
  ELSE NoResp

\* part_001, "Basic validation": as server.js, then the timezone's shape.
TimezoneCheck(timezone, earlier) ==
  IF earlier.status # 0 THEN earlier
  ELSE IF ~IsString(timezone) \/ Len(timezone.v) < 3
  THEN BadRequest("Timezone is verplicht", {"timezone"})
  ELSE NoResp

FetchValidation(body) == TimezoneCheck(TimezoneOf(body), ServerValidation(body))

\* server.js, the handler up to "await axios.post": requireEnv, validation,
\* tzone, payload.  A throw lands in the catch, which answers 500.
ServerSteps(body, invalid, sel) ==
  IF ~credentials THEN Finished(ServerError("ontbreekt. Zet deze in Railway Variables."), 0)
  ELSE IF invalid.status # 0 THEN Finished(invalid, 0)
  ELSE IF ~sel.r.ok THEN Finished(ServerError(sel.r.error), sel.n)
  ELSE Suspended(ChartPayload(body, sel.r.v), sel.n)

ServerStart(body) ==
  ServerSteps(body, ServerValidation(body),
              SelectTzone(Get(body, "tz_offset"), Get(body, "date"), Get(body, "time"), TimezoneOf(body)))

\* server.js, from the answer of axios.post (validateStatus: () => true, so
\* every HTTP status resolves; a network failure or the 30 s timeout rejects
\* and lands in the catch).
ServerFinish(body, payload, ans) ==
  IF ans.kind # "http" THEN ServerError(ans.kind)
  ELSE IF ~IsSuccessStatus(ans.status)
  THEN BadGateway("AstrologyAPI request failed", [status |-> ans.status, response |-> ans.data])
  ELSE IF Truthy(ans.data) /\ IsFalse(OptGet(ans.data, "status"))
  THEN BadGateway("AstrologyAPI rejected the request", ans.data)
  ELSE [status |-> 200, chart |-> ans.data, meta |-> ChartMeta(body, payload.tzone)]

\* part_001, the handler up to the fetch of callAstrologyApi: validation,
\* tzone, payload, then requireEnv inside callAstrologyApi.  The catch answers
\* e.statusCode || 500: 500 for the RangeError and for requireEnv's error.
FetchSteps(body, invalid, sel) ==
  IF invalid.status # 0 THEN Finished(invalid, 0)
  ELSE IF ~sel.r.ok THEN Finished(ServerError(sel.r.error), sel.n)
  ELSE IF ~credentials THEN Finished(ServerError("ontbreekt. Zet deze in Railway Variables."), sel.n)
  ELSE Suspended(ChartPayload(body, sel.r.v), sel.n)

FetchStart(body) ==
  FetchSteps(body, FetchValidation(body),
             SelectTzone(Get(body, "tz_offset"), Get(body, "date"), Get(body, "time"), TimezoneOf(body)))

\* data.status === false || data.status === "false"
FetchIsRejected(data) ==
  Truthy(data) /\ (IsFalse(OptGet(data, "status")) \/ IsText(OptGet(data, "status"), "false"))

\* part_001, from the answer of fetch: callAstrologyApi's two 502 errors, else
\* the 200 response.  A rejected fetch has no statusCode: 500.
FetchFinish(body, payload, ans) ==
  IF ans.kind # "http" THEN ServerError(ans.kind)
  ELSE IF ~IsSuccessStatus(ans.status)
  THEN BadGateway("AstrologyAPI request failed", [status |-> ans.status, response |-> ans.data])
  ELSE IF FetchIsRejected(ans.data)
  THEN BadGateway("AstrologyAPI rejected the request", ans.data)
  ELSE [status |-> 200, chart |-> ans.data, meta |-> ChartMeta(body, payload.tzone)]

(***************************************************************************)
(* part_000: the cache and the cached handler                              *)
(***************************************************************************)
\* CACHE_TTL_MS = 1000 * 60 * 60 * 24 * 30, in days
CACHE_TTL_DAYS == 30

\* `${x}` in a template literal, and the text URLSearchParams makes of a value.
\* Numbers of the model are integers.
JsToString(x) ==
  CASE x.t = "number" -> ToString(x.v)
    [] x.t = "string" -> x.v
    [] x.t = "boolean" -> (IF x.v THEN "true" ELSE "false")
    [] x.t = "null" -> "null"
    [] x.t = "undefined" -> "undefined"
    [] OTHER -> "[object Object]"

makeCacheKey(birth, houseType) ==
  JsToString(Get(birth, "day")) \o "-" \o JsToString(Get(birth, "month")) \o "-"
    \o JsToString(Get(birth, "year")) \o "-" \o JsToString(Get(birth, "hour")) \o "-"
    \o JsToString(Get(birth, "min")) \o "-" \o JsToString(Get(birth, "lat")) \o "-"
    \o JsToString(Get(birth, "lon")) \o "-" \o JsToString(Get(birth, "tzone")) \o "-"
    \o JsToString(houseType)

\* const required = [...]
Required == <<"day", "month", "year", "hour", "min", "lat", "lon", "tzone">>

\* Positions in required of the fields with birth[f] === undefined || birth[f] === null.
MissingFields(birth) ==
  {i \in 1..Len(Required) : Get(birth, Required[i]).t \in {"undefined", "null"}}

\* The field the loop stops at.
FirstMissing(birth) ==
  Required[CHOOSE i \in MissingFields(birth) : \A j \in MissingFields(birth) : i <= j]

\* const { name, birth, house_type = "placidus" } = req.body
HouseTypeOf(body) == Default(Get(body, "house_type"), Str("placidus"))

CacheKeyOf(body) == makeCacheKey(Get(body, "birth"), HouseTypeOf(body))

\* Mutation: an entry exactly CACHE_TTL_MS old still counts as fresh.
IsFreshInclusive(entry, clock) == (clock - entry.savedAt) <= CACHE_TTL_DAYS

\* (Date.now() - cached.savedAt) < CACHE_TTL_MS
IsFresh(entry, clock) == (clock - entry.savedAt) < CACHE_TTL_DAYS

\* cached && fresh, for cached = cache.get(cacheKey)
CacheHit(store, key, clock) == key \in DOMAIN store /\ IsFresh(store[key], clock)

\* new URLSearchParams({ day: birth.day, ..., house_type })
CachedPayload(body) ==
  LET birth == Get(body, "birth")
  IN [day |-> JsToString(Get(birth, "day")), month |-> JsToString(Get(birth, "month")),
      year |-> JsToString(Get(birth, "year")), hour |-> JsToString(Get(birth, "hour")),
      min |-> JsToString(Get(birth, "min")), lat |-> JsToString(Get(birth, "lat")),
      lon |-> JsToString(Get(birth, "lon")), tzone |-> JsToString(Get(birth, "tzone")),
      house_type |-> JsToString(HouseTypeOf(body))]

\* { ...birth, house_type }
BirthWithHouseType(body) ==
  LET birth == Get(body, "birth")
  IN [f \in DOMAIN birth \cup {"house_type"} |->
        IF f = "house_type" THEN HouseTypeOf(body) ELSE birth[f]]

\* const clean = { name: name || null, birth: {...}, bodies, houses, aspects, source }
Clean(body, raw, bodies, houses) ==
  [name |-> Or(Get(body, "name"), Null),
   birth |-> BirthWithHouseType(body),
   bodies |-> bodies,
   houses |-> houses,
   aspects |-> Or(OptGet(raw, "aspects"), Arr(<<>>)),
   source |-> "western_chart_data"]

\* part_000, the handler up to "await axios.post": credentials, birth, the
\* required-field loop, the cache lookup, the payload.
CachedStart(body) ==
  LET birth == Get(body, "birth")
      key == CacheKeyOf(body)
  IN IF ~credentials THEN Finished(ServerError("AstrologyAPI credentials ontbreken"), 0)
     ELSE IF ~Truthy(birth) THEN Finished(BadRequest("birth object ontbreekt", {"birth"}), 0)
     ELSE IF MissingFields(birth) # {}
     THEN Finished(BadRequest("ontbreekt", {FirstMissing(birth)}), 0)
     ELSE IF CacheHit(cache, key, now)
     THEN Finished([status |-> 200, data |-> cache[key].data, cached |-> TRUE], 0)
     ELSE Suspended(CachedPayload(body), 0)

\* part_000, from the answer of axios.post (default validateStatus, timeout
\* 15 s): a 2xx answer is normalized, stored and returned; a non-2xx answer, a
\* network failure, the timeout and a throw of a normalizer land in the catch,
\* which answers 502.  write says whether cache.set ran.
Stored(clean, clock) ==
  [resp |-> [status |-> 200, data |-> clean, cached |-> FALSE],
   write |-> TRUE,
   entry |-> [savedAt |-> clock, data |-> clean]]

Normalized(body, raw, bodies, houses, clock) ==
  IF ~bodies.ok \/ ~houses.ok
  THEN [resp |-> BadGateway("Chart ophalen mislukt", Str("TypeError")), write |-> FALSE]
  ELSE Stored(Clean(body, raw, bodies.v, houses.v), clock)

CachedFinish(body, ans, clock) ==
  IF ans.kind # "http"
  THEN [resp |-> BadGateway("Chart ophalen mislukt", Str(ans.kind)), write |-> FALSE]
  ELSE IF ~IsSuccessStatus(ans.status)
  THEN [resp |-> BadGateway("Chart ophalen mislukt", Or(ans.data, Str("Request failed"))),
        write |-> FALSE]
  ELSE Normalized(body, ans.data, normalizeBodies(ans.data), normalizeHouses(ans.data), clock)

\* Mutation: the entry is set only when the key has none, so that the first
\* writer wins.
CacheSetIfAbsent(store, key, entry) ==
  [k \in DOMAIN store \cup {key} |-> IF k \in DOMAIN store THEN store[k] ELSE entry]

\* cache.set(key, entry)
CacheSet(store, key, entry) ==
  [k \in DOMAIN store \cup {key} |-> IF k = key THEN entry ELSE store[k]]

(***************************************************************************)
(* The inputs the model draws from                                         *)
(***************************************************************************)
Obj(fields) == [f \in DOMAIN fields \cup {"t"} |-> IF f = "t" THEN "object" ELSE fields[f]]

\* Bodies of the requests to server.js and part_001.
Dates ==
  {Str(DateText(2021, 7, 15)), Str(DateText(2021, 3, 28)), Str(DateText(1981, 13, 45)),
   Str(<<"1", "5", "-", "0", "7", "-", "2", "0", "2", "1">>), Undefined}

Times == {Str(TimeText(1, 30)), Str(TimeText(25, 61)), Str(<<"8", ":", "5", "5">>), Undefined}

Latitudes == {Num(52), Num(999), Str("52"), Undefined}

Longitudes == {Num(5), Num(-181), Undefined}

Timezones == {Undefined, Str("America/New_York"), Str("Mars/Phobos"), Str("AB"), Num(1)}

\* tz_offset, a number in hundredths of an hour (550 is 5.5)
TzOffsets == {Undefined, Num(550), Str("2")}

ChartRequests ==
  {Obj([date |-> d, time |-> ti, latitude |-> la, longitude |-> lo, timezone |-> tz, tz_offset |-> off]) :
     d \in Dates, ti \in Times, la \in Latitudes, lo \in Longitudes, tz \in Timezones, off \in TzOffsets}

\* Bodies of the requests to the cached app.
BirthA ==
  Obj([day |-> Num(17), month |-> Num(10), year |-> Num(1981), hour |-> Num(8), min |-> Num(55),
       lat |-> Num(52), lon |-> Num(5), tzone |-> Num(2)])

BirthNoLat ==
  Obj([day |-> Num(17), month |-> Num(10), year |-> Num(1981), hour |-> Num(8), min |-> Num(55),
       lon |-> Num(5), tzone |-> Num(2)])

BirthNullTzone == [BirthA EXCEPT !.tzone = Null]

BirthTextDay == [BirthA EXCEPT !.day = Str("x")]

\* Two births that differ in lon and tzone and whose cache keys are the same
\* text, ...-52-5-2-1-placidus.
BirthDashLon == [BirthA EXCEPT !.lon = Str("5-2"), !.tzone = Num(1)]

BirthDashTzone == [BirthA EXCEPT !.tzone = Str("2-1")]

CachedRequests ==
  {Obj([name |-> Str("Ada"), birth |-> BirthA]),
   Obj([birth |-> BirthA]),
   Obj([name |-> Str("Ada"), birth |-> BirthA, house_type |-> Str("koch")]),
   Obj([name |-> Str("Ada"), birth |-> BirthNoLat]),
   Obj([name |-> Str("Ada"), birth |-> BirthNullTzone]),
   Obj([name |-> Str("Ada"), birth |-> BirthTextDay]),
   Obj([name |-> Str("Ada"), birth |-> BirthDashLon]),
   Obj([name |-> Str("Ada"), birth |-> BirthDashTzone]),
   Obj([name |-> Str("Ada")])}

RequestsOf(a) == IF a = "cached" THEN CachedRequests ELSE ChartRequests

\* Planet entries of an upstream body.
PlanetSun == Obj([name |-> Str(<<"S", "u", "n">>), sign |-> Str("Leo"), house |-> Num(5), degree |-> Num(10)])

PlanetRahu == Obj([name |-> Str(<<"R", "a", "h", "u">>), sign |-> Str("Aries"), house |-> Num(1), degree |-> Num(0)])

PlanetTrueNorth ==
  Obj([planet |-> Str(<<"T", "r", "u", "e", " ", "N", "o", "r", "t", "h">>), zodiac_sign |-> Str("Taurus"), house_number |-> Num(2),
       full_degree |-> Num(33), is_retro |-> Bool(TRUE)])

PlanetKetu ==
  Obj([object |-> Str(<<"k", "e", "t", "u">>), sign_name |-> Str("Libra"), longitude |-> Num(200),
       retrograde |-> Bool(TRUE)])

PlanetBlackMoon == Obj([name |-> Str(<<"B", "l", "a", "c", "k", " ", "M", "o", "o", "n">>), sign |-> Str("Virgo"), house |-> Num(6)])

PlanetNoName == Obj([sign |-> Str("Leo")])

PlanetNumberName == Obj([name |-> Num(7)])

Planets ==
  {PlanetSun, PlanetRahu, PlanetTrueNorth, PlanetKetu, PlanetBlackMoon, PlanetNoName,
   PlanetNumberName, Null}

\* House entries of an upstream body.
HouseOne == Obj([house |-> Num(1), sign |-> Str("Aries"), start_degree |-> Num(0), end_degree |-> Num(30)])

HouseTwo == Obj([house_number |-> Num(2), zodiac_sign |-> Str("Taurus"), start |-> Num(30), end |-> Num(60)])

HouseZeroThenTwelve == Obj([house |-> Num(0), house_number |-> Num(12), sign |-> Str("Pisces")])

HouseNullThenThree == Obj([house |-> Null, house_number |-> Num(3)])

HouseNoNumber == Obj([sign |-> Str("Gemini"), start_degree |-> Num(60)])

HouseZero == Obj([house |-> Num(0), sign |-> Str("Cancer")])

Houses ==
  {HouseOne, HouseTwo, HouseZeroThenTwelve, HouseNullThenThree, HouseNoNumber, HouseZero, Null}

\* Upstream bodies.
RawChart ==
  Obj([planets |-> Arr(<<PlanetSun, PlanetRahu, PlanetTrueNorth>>),
       houses |-> Arr(<<HouseOne, HouseNoNumber, HouseTwo>>),
       aspects |-> Arr(<<>>)])

RawRejected == Obj([status |-> Bool(FALSE), msg |-> Str("not authorized")])

RawRejectedText == Obj([status |-> Str("false"), msg |-> Str("not authorized")])

RawHousesNotAList == Obj([planets |-> Arr(<<PlanetSun>>), houses |-> Str("none")])

\* What the upstream can answer to a call of the app.
AnswersOf(a) ==
  CASE a = "server" ->
         {Http(200, RawChart), Http(200, RawRejected), Http(200, RawRejectedText),
          Http(401, RawRejected), NetworkError, Timeout}
    [] a = "fetch" ->
         {Http(200, RawChart), Http(200, RawRejected), Http(200, RawRejectedText),
          Http(401, RawRejected), NetworkError}
    [] a = "cached" ->
         {Http(200, RawChart), Http(200, RawRejected), Http(200, RawHousesNotAList),
          Http(401, RawRejected), NetworkError, Timeout}

\* Sequences over a set, up to a length.
SeqsUpTo(S, n) == UNION {[1..k -> S] : k \in 0..n}

\* Direct calls of the helpers.
TzDates ==
  {DateText(2021, 1, 15), DateText(2021, 3, 14), DateText(2021, 3, 27), DateText(2021, 3, 28),
   DateText(2021, 7, 15), DateText(2021, 10, 31), DateText(2021, 11, 7), DateText(1971, 6, 15)}

TzTimes ==
  {TimeText(0, 30), TimeText(1, 30), TimeText(2, 30), TimeText(3, 30), TimeText(8, 55),
   TimeText(23, 30)}

TzProbes ==
  {[op |-> "getTzOffsetHours", arg |-> [date |-> d, time |-> ti, zone |-> z], done |-> FALSE, out |-> Ok(0)] :
     d \in TzDates, ti \in TzTimes, z \in KnownZones}

BodiesProbes ==
  {[op |-> "normalizeBodies", arg |-> Obj([planets |-> Arr(l)]), done |-> FALSE, out |-> Ok(0)] :
     l \in SeqsUpTo(Planets, MaxBodies)}

HousesProbes ==
  {[op |-> "normalizeHouses", arg |-> Obj([houses |-> Arr(l)]), done |-> FALSE, out |-> Ok(0)] :
     l \in SeqsUpTo(Houses, MaxHouses)}

NoProbe == [op |-> "none", done |-> FALSE]

(***************************************************************************)
(* The state machine                                                       *)
(***************************************************************************)
NoEntries == [k \in {} |-> 0]

HandlerInit ==
  /\ app \in Apps
  /\ credentials \in BOOLEAN
  /\ now = 0
  /\ cache = NoEntries
  /\ pc = [r \in Slots |-> "idle"]
  /\ req = [r \in Slots |-> NoReq]
  /\ calls = [r \in Slots |-> 0]
  /\ sent = [r \in Slots |-> NoPayload]
  /\ answer = [r \in Slots |-> NoAnswer]
  /\ resp = [r \in Slots |-> NoResp]
  /\ resolved = [r \in Slots |-> 0]

Init == HandlerInit /\ probe = NoProbe

\* What every handler does with the outcome of its first part.
Begin(r, body, outcome) ==
  /\ pc' = [pc EXCEPT ![r] = outcome.pc]
  /\ req' = [req EXCEPT ![r] = body]
  /\ calls' = [calls EXCEPT ![r] = outcome.calls]
  /\ sent' = [sent EXCEPT ![r] = outcome.sent]
  /\ resp' = [resp EXCEPT ![r] = outcome.resp]
  /\ resolved' = [resolved EXCEPT ![r] = outcome.resolved]
  /\ UNCHANGED <<app, credentials, now, cache, answer, probe>>

\* What every handler does when it answers after the upstream call.
End(r, ans, response) ==
  /\ pc' = [pc EXCEPT ![r] = "done"]
  /\ answer' = [answer EXCEPT ![r] = ans]
  /\ resp' = [resp EXCEPT ![r] = response]
  /\ UNCHANGED <<app, credentials, now, req, calls, sent, resolved, probe>>

\* server.js: POST /api/chart/western arrives and runs to the upstream call or to a response.
ServerReceive(r) ==
  /\ app = "server" /\ r \in SlotsOf(app) /\ pc[r] = "idle"
  /\ \E body \in RequestsOf(app) : Begin(r, body, ServerStart(body))

\* server.js: the upstream call settles and the handler answers.
ServerResume(r) ==
  /\ app = "server" /\ pc[r] = "awaiting"
  /\ \E ans \in AnswersOf(app) : End(r, ans, ServerFinish(req[r], sent[r], ans))
  /\ UNCHANGED cache

\* part_001: the same two steps.
FetchReceive(r) ==
  /\ app = "fetch" /\ r \in SlotsOf(app) /\ pc[r] = "idle"
  /\ \E body \in RequestsOf(app) : Begin(r, body, FetchStart(body))

FetchResume(r) ==
  /\ app = "fetch" /\ pc[r] = "awaiting"
  /\ \E ans \in AnswersOf(app) : End(r, ans, FetchFinish(req[r], sent[r], ans))
  /\ UNCHANGED cache

\* part_000: the request arrives; a fresh cache entry answers it at once.
CachedReceive(r) ==
  /\ app = "cached" /\ r \in SlotsOf(app) /\ pc[r] = "idle"
  /\ \E body \in RequestsOf(app) : Begin(r, body, CachedStart(body))

\* part_000: the upstream call settles; a normalized 2xx answer is stored.
CachedResume(r) ==
  /\ app = "cached" /\ pc[r] = "awaiting"
  /\ \E ans \in AnswersOf(app) :
       \E fin \in {CachedFinish(req[r], ans, now)} :
          /\ End(r, ans, fin.resp)
          /\ cache' = IF fin.write THEN CacheSet(cache, CacheKeyOf(req[r]), fin.entry) ELSE cache

\* Time passes between the steps of the cached app, the one that reads Date.now().
Tick ==
  /\ app = "cached"
  /\ now + TickDays <= MaxNow
  /\ now' = now + TickDays
  /\ UNCHANGED <<app, credentials, cache, pc, req, calls, sent, answer, resp, resolved, probe>>

Next ==
  \/ \E r \in Slots : ServerReceive(r)
  \/ \E r \in Slots : ServerResume(r)
  \/ \E r \in Slots : FetchReceive(r)
  \/ \E r \in Slots : FetchResume(r)
  \/ \E r \in Slots : CachedReceive(r)
  \/ \E r \in Slots : CachedResume(r)
  \/ Tick

Spec == Init /\ [][Next]_vars

(***************************************************************************)
(* The helpers called directly                                             *)
(***************************************************************************)
HelpersInit ==
  /\ app = "cached" /\ credentials = TRUE /\ now = 0 /\ cache = NoEntries
  /\ pc = [r \in Slots |-> "idle"]
  /\ req = [r \in Slots |-> NoReq]
  /\ calls = [r \in Slots |-> 0]
  /\ sent = [r \in Slots |-> NoPayload]
  /\ answer = [r \in Slots |-> NoAnswer]
  /\ resp = [r \in Slots |-> NoResp]
  /\ resolved = [r \in Slots |-> 0]
  /\ probe \in TzProbes \cup BodiesProbes \cup HousesProbes

CallGetTzOffsetHours ==
  /\ probe.op = "getTzOffsetHours" /\ ~probe.done
  /\ probe' = [probe EXCEPT !.done = TRUE,
                            !.out = Ok(getTzOffsetHours(probe.arg.date, probe.arg.time, probe.arg.zone))]
  /\ UNCHANGED handlerVars

CallNormalizeBodies ==
  /\ probe.op = "normalizeBodies" /\ ~probe.done
  /\ probe' = [probe EXCEPT !.done = TRUE, !.out = normalizeBodies(probe.arg)]
  /\ UNCHANGED handlerVars

CallNormalizeHouses ==
  /\ probe.op = "normalizeHouses" /\ ~probe.done
  /\ probe' = [probe EXCEPT !.done = TRUE, !.out = normalizeHouses(probe.arg)]
  /\ UNCHANGED handlerVars

HelpersNext == CallGetTzOffsetHours \/ CallNormalizeBodies \/ CallNormalizeHouses

SpecHelpers == HelpersInit /\ [][HelpersNext]_vars

(***************************************************************************)
(* Properties of the helpers (checked under SpecHelpers)                   *)
(***************************************************************************)
\* The offsets of the zone that are in effect at a local wall-clock time
\* (seconds, read as if UTC): o is in effect when the instant local - o falls
\* where the zone's offset is o.  None in the gap of a spring-forward, two in
\* the overlap of a fall-back.
OffsetsInEffect(zone, local) ==
  {o \in {ZoneRules(zone)[i].off : i \in 1..Len(ZoneRules(zone))} : ZoneOffsetAt(zone, local - o) = o}

WallClockOf(arg) == UtcGuess(DateFields(arg.date), TimeFields(arg.time))

\* C8: for every valid (date, local time, zone), getTzOffsetHours returns the
\* zone's local-minus-UTC offset, rounded to two decimals, that is in effect at
\* that local wall-clock time in that zone, also within a few hours of a
\* daylight-saving transition.
C8_OffsetInEffectAtLocalTime ==
  (probe.op = "getTzOffsetHours" /\ probe.done /\ OffsetsInEffect(probe.arg.zone, WallClockOf(probe.arg)) # {})
    => probe.out.v \in {RoundHundredths(o) : o \in OffsetsInEffect(probe.arg.zone, WallClockOf(probe.arg))}

\* The entries of a planet list the loop pushes, and the name each gets.
PushedIndices(list) == {k \in 1..Len(list) : ~IsSkippedBody(list[k])}

NameAt(list, k) == CanonicalName(BodyName(list[k]).v)

\* The first entry of the list that gets the name.
FirstWithName(list, name) ==
  CHOOSE k \in PushedIndices(list) :
    /\ NameAt(list, k) = name
    /\ \A j \in PushedIndices(list) : NameAt(list, j) = name => k <= j

\* C9: normalizeBodies returns at most one entry per canonical name; the entry
\* of a name has the fields of the first input entry that aliases to it, every
\* name of the input is present, and the entries stand in the order of their
\* first occurrence in the input.
C9_OneBodyPerNameFirstWins ==
  (probe.op = "normalizeBodies" /\ probe.done /\ probe.out.ok) =>
    \E list \in {probe.arg.planets.v} : \E out \in {probe.out.v} :
      /\ \A i, j \in 1..Len(out) : i # j => out[i].name # out[j].name
      /\ \A k \in PushedIndices(list) : \E i \in 1..Len(out) : out[i].name = NameAt(list, k)
      /\ \A i \in 1..Len(out) :
           /\ \E k \in PushedIndices(list) : NameAt(list, k) = out[i].name
           /\ out[i] = PushedBody(out[i].name, list[FirstWithName(list, out[i].name)])
      /\ \A i, j \in 1..Len(out) :
           i < j => FirstWithName(list, out[i].name) < FirstWithName(list, out[j].name)

\* C9's case: two entries alias to NorthNode ("Rahu", then "True North") and
\* the one NorthNode of the output carries the fields of "Rahu".
C9_Witness ==
  /\ probe.op = "normalizeBodies" /\ probe.done /\ probe.out.ok
  /\ probe.arg.planets.v = <<PlanetSun, PlanetRahu, PlanetTrueNorth>>
  /\ Len(probe.out.v) = 2
  /\ probe.out.v[2] = PushedBody(NorthNode, PlanetRahu)
  /\ PushedBody(NorthNode, PlanetRahu) # PushedBody(NorthNode, PlanetTrueNorth)

\* A house number: 1..12.
IsHouseNumber(x) == x.t = "number" /\ x.v >= 1 /\ x.v <= 12

\* The house number of an entry, from house, else from house_number.
HasHouseNumber(h) == IsHouseNumber(Get(h, "house")) \/ IsHouseNumber(Get(h, "house_number"))

HouseNumberOf(h) ==
  IF IsHouseNumber(Get(h, "house")) THEN Get(h, "house") ELSE Get(h, "house_number")

\* C10: normalizeHouses outputs an entry for a house if and only if the house
\* has a resolvable house number (from house, else house_number): the output is
\* the input's entries that have one, mapped, in the input's order, each with
\* its number and never a placeholder.
C10_HousesWithNumberOnly ==
  (probe.op = "normalizeHouses" /\ probe.done /\ probe.out.ok) =>
    \E kept \in {SelectSeq(probe.arg.houses.v, HasHouseNumber)} : \E out \in {probe.out.v} :
      /\ Len(out) = Len(kept)
      /\ \A i \in 1..Len(out) :
           /\ out[i] = MappedHouse(kept[i])
           /\ out[i].house = HouseNumberOf(kept[i])

\* C10's case: a list with an entry that has no number between two that have
\* one; the output holds the two, in order.
C10_Witness ==
  /\ probe.op = "normalizeHouses" /\ probe.done /\ probe.out.ok
  /\ probe.arg.houses.v = <<HouseOne, HouseNoNumber, HouseTwo>>
  /\ Len(probe.out.v) = 2
  /\ probe.out.v[1].house = Num(1) /\ probe.out.v[2].house = Num(2)

(***************************************************************************)
(* Properties of the handlers (checked under Spec)                         *)
(***************************************************************************)
ChartApps == {"server", "fetch"}

\* The validation of the running chart app.
ChartValidation(body) == IF app = "fetch" THEN FetchValidation(body) ELSE ServerValidation(body)

\* The cached app has checked the request and computed its cache key.
ReachesLookup(body) ==
  credentials /\ Truthy(Get(body, "birth")) /\ MissingFields(Get(body, "birth")) = {}

\* Slot r is answered from the cache in the next state.
ServedFromCache(r) ==
  pc'[r] = "done" /\ resp'[r].status = 200 /\ resp'[r].cached /\ calls'[r] = 0

\* The upstream call of an answer succeeded: a 2xx status.
IsSuccessAnswer(ans) == ans.kind = "http" /\ IsSuccessStatus(ans.status)

\* The upstream body carries the in-band rejection flag.
IsRejectedAnswer(ans) == IsSuccessAnswer(ans) /\ Truthy(ans.data) /\ IsFalse(OptGet(ans.data, "status"))

\* C1 as stated: in the cached app a request is answered from the cache
\* (cached: true, no upstream call) if and only if an entry of its key exists
\* whose age is within the retention window; in every other case the upstream
\* is called and the response is annotated cached: false.
C1_CacheOrUpstreamAnnotated ==
  [][\A r \in Slots :
       /\ (app = "cached" /\ pc[r] = "idle" /\ pc'[r] # "idle" /\ ReachesLookup(req'[r])) =>
            \E key \in {CacheKeyOf(req'[r])} :
              /\ ServedFromCache(r) <=>
                   (key \in DOMAIN cache /\ now - cache[key].savedAt < CACHE_TTL_DAYS)
              /\ ~ServedFromCache(r) => (pc'[r] = "awaiting" /\ calls'[r] = 1)
       /\ (app = "cached" /\ pc[r] = "awaiting" /\ pc'[r] = "done") =>
            (resp'[r].status = 200 /\ resp'[r].cached = FALSE /\ calls'[r] = 1)
    ]_vars

\* C1 as amended: a request is answered from the cache if and only if an entry
\* of its key exists whose age is below the window (an entry exactly 30 days
\* old is stale); in every other case the upstream is called once, and the
\* response is annotated cached: false when that call answers 2xx and the
\* normalizers accept the body; otherwise it is a 502 without the annotation.
C1_CacheServedIffFresh ==
  [][\A r \in Slots :
       /\ (app = "cached" /\ pc[r] = "idle" /\ pc'[r] # "idle" /\ ReachesLookup(req'[r])) =>
            \E key \in {CacheKeyOf(req'[r])} :
              /\ ServedFromCache(r) <=>
                   (key \in DOMAIN cache /\ now - cache[key].savedAt < CACHE_TTL_DAYS)
              /\ ServedFromCache(r) => resp'[r].data = cache[key].data
              /\ ~ServedFromCache(r) => (pc'[r] = "awaiting" /\ calls'[r] = 1)
       /\ (app = "cached" /\ pc[r] = "awaiting" /\ pc'[r] = "done") =>
            /\ calls'[r] = 1
            /\ IF /\ IsSuccessAnswer(answer'[r])
                  /\ normalizeBodies(answer'[r].data).ok
                  /\ normalizeHouses(answer'[r].data).ok
               THEN resp'[r].status = 200 /\ resp'[r].cached = FALSE
               ELSE resp'[r].status = 502 /\ "cached" \notin DOMAIN resp'[r]
    ]_vars

\* C1's case: an entry written at day 0 answers a request of the same key, and
\* 30 days after it was written a further request of that key goes upstream.
C1_Witness ==
  /\ app = "cached" /\ now >= CACHE_TTL_DAYS
  /\ \E r1, r2 \in Slots :
       /\ r1 # r2 /\ pc[r1] = "done" /\ pc[r2] = "awaiting"
       /\ CacheKeyOf(req[r1]) = CacheKeyOf(req[r2])
       /\ resp[r1].status = 200
       /\ CacheKeyOf(req[r1]) \in DOMAIN cache
       /\ cache[CacheKeyOf(req[r1])].savedAt = 0
       /\ calls[r2] = 1

\* C2: whenever the upstream answers a call with a non-2xx status, or with a
\* 2xx status and a body that carries status === false, the caller receives
\* 502 with the upstream status and/or body in details, after exactly one
\* upstream call.
C2_UpstreamFailureIs502 ==
  \A r \in Slots :
    (pc[r] = "done" /\ answer[r].kind = "http"
       /\ (~IsSuccessStatus(answer[r].status) \/ IsRejectedAnswer(answer[r]))) =>
      /\ resp[r].status = 502
      /\ \/ resp[r].details = answer[r].data
         \/ resp[r].details = [status |-> answer[r].status, response |-> answer[r].data]
      /\ calls[r] = 1

\* C3: in the cached app a request whose upstream call failed (non-2xx, network
\* error, timeout) or whose upstream body carried status === false leaves the
\* cache unchanged.
C3_FailedCallsLeaveCacheUnchanged ==
  [][\A r \in Slots :
       (app = "cached" /\ pc[r] = "awaiting" /\ pc'[r] = "done"
          /\ (~IsSuccessAnswer(answer'[r]) \/ IsRejectedAnswer(answer'[r]))) =>
         cache' = cache
    ]_vars

\* C4: a request that passes the date, time and coordinate validation, has no
\* numeric tz_offset and names a timezone that is no zone identifier is
\* answered with a 400-class error, never a 500-class one, and without an
\* upstream call.
C4_UnknownTimezoneIsClientError ==
  \A r \in Slots :
    (app \in ChartApps /\ credentials /\ pc[r] # "idle"
       /\ ServerValidation(req[r]).status = 0
       /\ ~IsNumber(Get(req[r], "tz_offset"))
       /\ ~IsKnownZone(TimezoneOf(req[r]))) =>
      (pc[r] = "done" /\ resp[r].status >= 400 /\ resp[r].status <= 499 /\ calls[r] = 0)

\* C5: for every request that passes validation and carries a numeric
\* tz_offset, getTzOffsetHours is not invoked, the request goes upstream
\* (whatever its timezone name), the tzone sent is tz_offset, and so is the
\* tzone of meta.
C5_ExplicitOffsetOverrides ==
  \A r \in Slots :
    (app \in ChartApps /\ credentials /\ pc[r] # "idle"
       /\ ChartValidation(req[r]).status = 0
       /\ IsNumber(Get(req[r], "tz_offset"))) =>
      /\ resolved[r] = 0
      /\ calls[r] = 1
      /\ sent[r].tzone = Get(req[r], "tz_offset").v
      /\ (pc[r] = "done" /\ resp[r].status = 200) => resp[r].meta.tzone = Get(req[r], "tz_offset").v

\* C5's case: a request with tz_offset 5.5 and a timezone that is no zone
\* identifier was sent upstream with tzone 5.5 and answered 200.
C5_Witness ==
  \E r \in Slots :
    /\ app \in ChartApps /\ pc[r] = "done" /\ resp[r].status = 200
    /\ Get(req[r], "tz_offset") = Num(550)
    /\ IsText(TimezoneOf(req[r]), "Mars/Phobos")
    /\ sent[r].tzone = 550 /\ resp[r].meta.tzone = 550 /\ resolved[r] = 0

\* The first required field, in validation order, that is missing or does not
\* pass its check; "" when there is none.
FirstInvalidChartField(body) ==
  IF ~isValidDateISO(Get(body, "date")) THEN "date"
  ELSE IF ~isValidTimeHHMM(Get(body, "time")) THEN "time"
  ELSE IF ~IsNumber(Get(body, "latitude")) THEN "latitude"
  ELSE IF ~IsNumber(Get(body, "longitude")) THEN "longitude"
  ELSE ""

InvalidBirthFields(birth) == {i \in 1..Len(Required) : ~IsNumber(Get(birth, Required[i]))}

FirstInvalidBirthField(body) ==
  IF ~Truthy(Get(body, "birth")) THEN "birth"
  ELSE IF InvalidBirthFields(Get(body, "birth")) = {} THEN ""
  ELSE Required[CHOOSE i \in InvalidBirthFields(Get(body, "birth")) :
                  \A j \in InvalidBirthFields(Get(body, "birth")) : i <= j]

FirstInvalidField(body) ==
  IF app = "cached" THEN FirstInvalidBirthField(body) ELSE FirstInvalidChartField(body)

\* C6: a request with a required birth field missing or of the wrong type is
\* answered 400 with an error naming the first such field in validation order,
\* before any upstream call.
C6_InvalidFieldIs400 ==
  \A r \in Slots :
    (credentials /\ pc[r] # "idle" /\ FirstInvalidField(req[r]) # "") =>
      /\ pc[r] = "done"
      /\ resp[r].status = 400
      /\ FirstInvalidField(req[r]) \in resp[r].names
      /\ calls[r] = 0

IsLeapYear(y) == (y % 4 = 0 /\ y % 100 # 0) \/ y % 400 = 0

DaysInMonth(y, m) ==
  IF m = 2 THEN (IF IsLeapYear(y) THEN 29 ELSE 28)
  ELSE IF m \in {4, 6, 9, 11} THEN 30 ELSE 31

\* C7: no payload sent to the upstream carries a month outside 1..12, a day
\* that the month does not have, an hour outside 0..23, a minute outside 0..59,
\* a latitude outside [-90, 90] or a longitude outside [-180, 180].
C7_PayloadInRange ==
  \A r \in Slots :
    (app \in ChartApps /\ calls[r] >= 1) =>
      /\ sent[r].month >= 1 /\ sent[r].month <= 12
      /\ sent[r].day >= 1 /\ sent[r].day <= DaysInMonth(sent[r].year, sent[r].month)
      /\ sent[r].hour >= 0 /\ sent[r].hour <= 23
      /\ sent[r].min >= 0 /\ sent[r].min <= 59
      /\ sent[r].lat >= -90 /\ sent[r].lat <= 90
      /\ sent[r].lon >= -180 /\ sent[r].lon <= 180

\* C11: when the upstream does not answer within the timeout of the call, the
\* request is finished with the 502 of a failed upstream call, after exactly
\* one upstream call, and the cache is left unchanged.
C11_TimeoutIsUpstreamFailure ==
  [][\A r \in Slots :
       (pc[r] = "awaiting" /\ pc'[r] = "done" /\ answer'[r].kind = "timeout") =>
         (resp'[r].status = 502 /\ calls'[r] = 1 /\ cache' = cache)
    ]_vars

\* Slots r1 and r2 hold requests of one cache key that were in flight together
\* and were both answered by the upstream.
AnsweredTogether(r1, r2) ==
  /\ r1 # r2 /\ pc[r1] = "done" /\ pc[r2] = "done"
  /\ CacheKeyOf(req[r1]) = CacheKeyOf(req[r2])
  /\ calls[r1] = 1 /\ calls[r2] = 1

\* C12: requests of one cache key that are in flight together each make their
\* own upstream call and complete on their own: a suspended request can always
\* resume, whatever the others do, its completion touches no other request, and
\* a response once written stays.  Every completion that writes the cache
\* replaces the entry of its key by its own result and savedAt and leaves the
\* other keys alone, and nothing else changes the cache: after all have
\* completed the entry is that of the last write.
C12_LastWriterWins ==
  /\ [](\A r \in Slots : (app = "cached" /\ pc[r] = "awaiting") =>
          (calls[r] = 1 /\ ENABLED CachedResume(r)))
  /\ [][/\ \A r \in Slots :
            (app = "cached" /\ pc[r] = "awaiting" /\ pc'[r] = "done") =>
              /\ calls'[r] = 1
              /\ \A q \in Slots \ {r} : pc'[q] = pc[q] /\ resp'[q] = resp[q] /\ calls'[q] = calls[q]
              /\ IF resp'[r].status = 200
                 THEN \E key \in {CacheKeyOf(req[r])} :
                        /\ DOMAIN cache' = DOMAIN cache \cup {key}
                        /\ cache'[key] = [savedAt |-> now, data |-> resp'[r].data]
                        /\ \A k \in DOMAIN cache \ {key} : cache'[k] = cache[k]
                 ELSE cache' = cache
        /\ \A r \in Slots : pc[r] = "done" => (pc'[r] = "done" /\ resp'[r] = resp[r])
        /\ cache' # cache => \E r \in Slots : pc[r] = "awaiting" /\ pc'[r] = "done"
      ]_vars

\* C12's case: two requests of one key, neither answered from the cache
\* although no entry was ever stale, got different results; the cache holds
\* the one written later.
C12_Witness ==
  /\ app = "cached" /\ now < CACHE_TTL_DAYS /\ now > 0
  /\ \E r1, r2 \in Slots :
       /\ AnsweredTogether(r1, r2)
       /\ resp[r1].status = 200 /\ resp[r2].status = 200
       /\ resp[r1].data # resp[r2].data
       /\ cache[CacheKeyOf(req[r1])] = [savedAt |-> now, data |-> resp[r1].data]

\* C13: the body returned on a cache hit is, apart from the cached flag, the
\* body a miss would have produced for the same request from the upstream
\* answer the entry was built from: the stored chart with the name and the
\* birth (house_type included) of the current request.  In particular no
\* request is answered from an entry that a request of another birth tuple
\* wrote.
C13_CacheTransparency ==
  [][\A r \in Slots :
       (app = "cached" /\ pc[r] = "idle" /\ pc'[r] = "done"
          /\ resp'[r].status = 200 /\ resp'[r].cached) =>
         resp'[r].data = [cache[CacheKeyOf(req'[r])].data EXCEPT
                            !.name = Or(Get(req'[r], "name"), Null),
                            !.birth = BirthWithHouseType(req'[r])]
    ]_vars

====
